---- MODULE Spec2Model ----
(***************************************************************************)
(* Model of the multi-URL connection manager of the repository, in its two *)
(* variants:                                                               *)
(*   sqla   src/src/sqla/manager/manager.py   (engine list, current index, *)
(*          max_attempts = 3, one URL probed per attempt, deadline)        *)
(*   sqlax  src/src/sqlax/manager/manager.py  (engine dict, current URL,   *)
(*          3 rounds, every URL of the list probed per round)              *)
(* Each caller is a process that runs one public operation at a time; the  *)
(* operations are stepped statement by statement, so that sequential use   *)
(* (one caller) and concurrent use (several callers) share the actions.    *)
(* A URL is identified by its position in the list, urls[i] = i (0-based). *)
(***************************************************************************)
EXTENDS Integers, Naturals, Sequences, FiniteSets, TLC

\* ---- bounds of the model ------------------------------------------------
MaxUrls == 4          \* URL lists have 1..MaxUrls entries
MaxProbeTime == 11    \* a probe takes 0 or MaxProbeTime time units
MaxEngines == 2       \* engines created per URL (cap of the creation count)
NumThreads == 2       \* callers of the concurrent specification
MaxCalls == 1         \* calls per caller in the concurrent specification
MaxTables == 1        \* table names of the databases
MaxSessionCalls == 3  \* calls of the caller whose sessions are numbered
MaxUrlsDriver == 3    \* URL lists of the specification with failing drivers
MaxCommits == 2       \* transactions committed by the bodies of managed sessions
MaxRows == 2          \* rows given to one upsert or bulk_insert call
MaxModels == 3        \* objects in a list given to models_to_dict_list

\* ---- program constants --------------------------------------------------
max_attempts_four == 3 + 1  \* variation: one attempt too many
max_attempts == 3         \* sqla  _get_or_create_engine(max_attempts=3)
retry_count_two == 3 - 1  \* variation: one round too few
retry_count == 3          \* sqlax retry_count = 3
DefaultTimeout == 10      \* sqla  __init__(timeout_seconds=10)
SleepSqla == 2            \* sqla  time.sleep(2)
SleepSqlax == 1           \* sqlax time.sleep(1)

Variants == {"sqla", "sqlax"}
Timeouts == {1, DefaultTimeout}   \* timeout_seconds given to the constructor
ProbeTimes == {0, MaxProbeTime}
Threads == 1..NumThreads
Main == 1                 \* the caller of the sequential specifications
Unlimited == -1           \* calls_left of a caller that may call for ever
NotCounted == -1          \* sessions_made when the sessions are not numbered
TableNames == 1..MaxTables
NoTable == 0              \* a name that no table ever has

\* ---- values -------------------------------------------------------------
None == <<>>              \* Python None
Absent == <<-1>>          \* sqlax: key not in the _engines dict
NoUrl == -1               \* sqlax: _current_engine_index_url = ""
Engine(u, k) == <<u, k>>  \* the k-th engine created from urls[u]
IsEngine(e) == Len(e) = 2
NoRet == [kind |-> "none", val |-> None, exc |-> ""]
Returned(k, v) == [kind |-> k, val |-> v, exc |-> ""]
\* variation of Raised: the error is swallowed and None is returned
RaisedAsNone(x) == [kind |-> "None", val |-> None, exc |-> ""]
Raised(x) == [kind |-> "raise", val |-> None, exc |-> x]
Unset == <<-2>>           \* an attribute before __init__ has assigned it
NoAttribute == {None}     \* hasattr(self, "reflected_tables") is false
Table(u, name) == <<u, name, 0>>   \* metadata of table name, reflected from urls[u]
Session(f, k) == <<f[1], f[2], k>> \* the k-th session made, bound to engine f

VARIABLES
  variant,                  \* which manager.py is running
  n,                        \* len(self.urls)
  timeout_seconds,          \* self.timeout_seconds (sqla)
  connectable,              \* environment: URLs whose probe succeeds now
  engines,                  \* self._engines
  current_engine_index,     \* self._current_engine_index (sqla)
  current_engine_index_url, \* self._current_engine_index_url (sqlax)
  session_factory,          \* self._session_factory: None or the bound engine
  created,                  \* number of engines created so far per URL
  pc, op,                   \* position and running public operation per caller
  calls_left,               \* calls a caller may still start (Unlimited: any number)
  attempt, ui,              \* loop counters: for _ in range(..), for url in urls
  url, engine, tmp,         \* locals: url, engine, index value to be stored
  elapsed,                  \* time.monotonic() - start_time, saturated
  ret,                      \* outcome of the last finished call
  probed, slept, broke, built,  \* per call: probe log, sleeps, deadline break, factories built
  snap, prev,               \* manager state at call start; previous call
  ctor,                     \* outcome of DatabaseManager.__init__
  reflected_tables,         \* self.reflected_tables / self._reflected_tables
  crashing,                 \* environment: URLs whose driver fails with an error
                            \* that is not an SQLAlchemyError
  schema,                   \* environment: tables visible in the database of a URL
  arg,                      \* per call: the name given to get_reflected_table, the
                            \* argument given to models_to_dict_list
  trace, body,              \* per call: session methods that the managed scope and
                            \* its body called and that returned, in order; how the
                            \* body of the scope ended
  sessions_made, handed,    \* sessions produced by the factories; sessions handed out
  seen,                     \* tables that were visible when reflect_database last succeeded
  db,                       \* environment: transactions committed to the database so far
  table,                    \* environment: the committed records of the model's table
  work,                     \* per call: the table as the session's transaction sees it
  data, row,                \* per call: the rows given to the helper; the row in turn
  before                    \* per call: table and rows of the caller's last batch call

shared == <<variant, n, timeout_seconds, ctor, reflected_tables, engines, current_engine_index,
            current_engine_index_url, session_factory, created>>
locals == <<pc, op, calls_left, attempt, ui, url, engine, tmp, elapsed>>
history == <<ret, probed, slept, broke, built, snap, prev, arg, trace, body>>
environment == <<connectable, crashing, schema, db>>
batch == <<table, work, data, row, before>>
records == <<sessions_made, handed, seen, batch>>
vars == <<shared, environment, locals, history, records>>

Urls == 0..(n - 1)

\* ---- expressions of the code ---------------------------------------------
\* variation of NextIndex: the index is not advanced
NextIndexStuck(i, len) == i

\* sqla line 38: (self._current_engine_index + 1) % len(self.urls)
NextIndex(i, len) == (i + 1) % len

\* sqla line 41: elapsed_time > self.timeout_seconds
DeadlineExceeded(e, limit) == e > limit

\* variation of SlotIsNone: the slot is probed whether or not it is filled
SlotIsNoneAlways(e) == TRUE

\* sqla line 30: self._engines[i] is None
SlotIsNone(e) == e = None

\* variation of GetIsNone: the url is probed whether or not it has an engine
GetIsNoneAlways(e) == TRUE

\* sqlax line 72: self._engines.get(url) is None
GetIsNone(e) == e = None \/ e = Absent

\* lines 35 / 76 / 71 / 167: truth value of an engine entry; the variation
\* takes no entry for an engine
TruthyNever(e) == FALSE
Truthy(e) == IsEngine(e)

\* variation of EngineCached: get_engine always goes through the retry loop
EngineCachedNever(e) == FALSE

\* get_engine, lines 64 / 160: if engine := <entry of the current selection>
EngineCached(e) == Truthy(e)

\* variation of FactoryMissing: the factory is initialised on every call
FactoryMissingAlways(f) == TRUE

\* lines 55 / 131: not self._session_factory
FactoryMissing(f) == f = None

\* what create_engine(url) and engine.connect() do for urls[u] at this moment:
\* they return, or raise an SQLAlchemyError, or raise another error (the driver
\* module cannot be imported, for one)
DriverOutcome(u) == IF u \in connectable THEN "ok"
                    ELSE IF u \in crashing THEN "DriverError"
                    ELSE "SQLAlchemyError"

\* sqla line 23, sqlax line 36: except exc.SQLAlchemyError
Caught(err) == err = "SQLAlchemyError"

\* _create_engine_from_url / create_engine_from_url: an engine, or None when
\* create_engine / connect raises SQLAlchemyError; the variation returns the
\* engine object also when connect failed
CreateEngineFromUrlUnprobed(u, ok, k) == Engine(u, k + 1)
CreateEngineFromUrl(u, ok, k) == IF ok THEN Engine(u, k + 1) ELSE None

\* sessionmaker(bind=engine)
SessionMaker(e) == e

\* variation of RebindFactory: a factory that exists is kept
RebindFactoryKeep(old, e) == IF old = None THEN e ELSE old

\* lines 50 / 107: self._session_factory = sessionmaker(bind=engine), whatever
\* factory was there before
RebindFactory(old, e) == SessionMaker(e)

\* clock: every caller inside a call sees d more time units elapsed
Advance(d) == [s \in Threads |->
                 IF pc[s] = "idle" THEN elapsed[s]
                 ELSE IF elapsed[s] + d > timeout_seconds + 1
                      THEN timeout_seconds + 1 ELSE elapsed[s] + d]

Snapshot == [engines |-> engines, index |-> current_engine_index,
             index_url |-> current_engine_index_url, factory |-> session_factory,
             db |-> db]

\* the engine entry of the current selection, as get_engine's first line reads it
CurrentEntry == IF variant = "sqla" THEN engines[current_engine_index]
                ELSE IF current_engine_index_url = NoUrl THEN None
                ELSE IF engines[current_engine_index_url] = Absent THEN None
                ELSE engines[current_engine_index_url]

\* the operations that call init_session_factory through get_new_session
SessionOps == {"get_new_session", "execute_within_session", "upsert", "bulk_insert"}

\* the helper methods that stage rows and commit them in a managed session
BatchOps == {"upsert", "bulk_insert"}

\* the operations that call _get_or_create_engine through get_engine
EngineOps == {"get_engine", "reflect_database"}

\* first statement of _get_or_create_engine
LoopStart == IF variant = "sqla" THEN "a30" ELSE "x70"

\* ---- construction ---------------------------------------------------------
\* sqla line 12: self._engines = [None] * len(urls); sqlax line 44: self._engines = {}
NewEngines(v, len) == [u \in 0..(len - 1) |-> IF v = "sqla" THEN None ELSE Absent]

\* variation of UrlsAccepted: the constructor accepts every list
UrlsAcceptedAlways(len) == TRUE

\* sqla line 16, sqlax line 48: assert self.urls
UrlsAccepted(len) == len > 0

\* the manager as __init__ leaves it when it returns
InitManager ==
  /\ engines = NewEngines(variant, n)
  /\ current_engine_index = 0
  /\ current_engine_index_url = NoUrl
  /\ session_factory = None
  /\ created = [u \in Urls |-> 0]
  /\ ctor = "ok"
  /\ reflected_tables = NoAttribute

\* no call has been made: the callers are idle and nothing has been committed
InitCallers ==
  /\ db = 0
  /\ work = [t \in Threads |-> <<>>]
  /\ data = [t \in Threads |-> <<>>]
  /\ row = [t \in Threads |-> 0]
  /\ before = [t \in Threads |-> [table |-> <<>>, data |-> <<>>]]
  /\ pc = [t \in Threads |-> "idle"]
  /\ op = [t \in Threads |-> "none"]
  /\ attempt = [t \in Threads |-> 0]
  /\ ui = [t \in Threads |-> 0]
  /\ url = [t \in Threads |-> 0]
  /\ engine = [t \in Threads |-> None]
  /\ tmp = [t \in Threads |-> 0]
  /\ elapsed = [t \in Threads |-> 0]
  /\ ret = [t \in Threads |-> NoRet]
  /\ probed = [t \in Threads |-> <<>>]
  /\ slept = [t \in Threads |-> 0]
  /\ broke = [t \in Threads |-> FALSE]
  /\ built = [t \in Threads |-> 0]
  /\ snap = [t \in Threads |-> Snapshot]
  /\ prev = [t \in Threads |-> [op |-> "none", ret |-> NoRet]]
  /\ arg = [t \in Threads |-> 0]
  /\ trace = [t \in Threads |-> <<>>]
  /\ body = [t \in Threads |-> "none"]
  /\ handed = <<>>
  /\ seen = NoAttribute

\* every driver failure is an SQLAlchemyError, the databases have no tables and
\* the sessions are not numbered
InitPlain ==
  /\ table = <<>>
  /\ crashing = {}
  /\ schema = [u \in Urls |-> {}]
  /\ sessions_made = NotCounted

InitBase ==
  /\ variant \in Variants
  /\ n \in 1..MaxUrls
  /\ timeout_seconds \in Timeouts
  /\ connectable \in SUBSET Urls
  /\ InitManager
  /\ InitCallers

Init == InitBase /\ InitPlain /\ calls_left = [t \in Threads |-> Unlimited]

\* ---- call bookkeeping ----------------------------------------------------
\* a caller starts the public operation o: remember the previous call and the
\* manager state the call starts from, and clear the per-call records
BeginCallWith(t, o, a) ==
  /\ ctor = "ok"
  /\ pc[t] = "idle"
  /\ calls_left[t] # 0
  /\ calls_left' = [calls_left EXCEPT ![t] = IF @ = Unlimited THEN @ ELSE @ - 1]
  /\ op' = [op EXCEPT ![t] = o]
  /\ prev' = [prev EXCEPT ![t] = [op |-> op[t], ret |-> ret[t]]]
  /\ snap' = [snap EXCEPT ![t] = Snapshot]
  /\ probed' = [probed EXCEPT ![t] = <<>>]
  /\ slept' = [slept EXCEPT ![t] = 0]
  /\ broke' = [broke EXCEPT ![t] = FALSE]
  /\ built' = [built EXCEPT ![t] = 0]
  /\ arg' = [arg EXCEPT ![t] = a]
  /\ trace' = [trace EXCEPT ![t] = <<>>]
  /\ body' = [body EXCEPT ![t] = "none"]

BeginCall(t, o) == BeginCallWith(t, o, 0)

\* the call enters _get_or_create_engine (sqla line 28: start_time)
EnterAcquire(t) ==
  /\ pc' = [pc EXCEPT ![t] = LoopStart]
  /\ attempt' = [attempt EXCEPT ![t] = 0]
  /\ ui' = [ui EXCEPT ![t] = 0]
  /\ elapsed' = [elapsed EXCEPT ![t] = 0]
  /\ UNCHANGED <<url, engine, tmp>>

\* the public operation returns r or raises r to its caller; el is the clock
\* reading of every caller at that moment
FinishFrom(t, r, el) ==
  /\ pc' = [pc EXCEPT ![t] = "idle"]
  /\ ret' = [ret EXCEPT ![t] = r]
  /\ attempt' = [attempt EXCEPT ![t] = 0]
  /\ ui' = [ui EXCEPT ![t] = 0]
  /\ url' = [url EXCEPT ![t] = 0]
  /\ engine' = [engine EXCEPT ![t] = None]
  /\ tmp' = [tmp EXCEPT ![t] = 0]
  /\ elapsed' = [el EXCEPT ![t] = 0]

Finish(t, r) == FinishFrom(t, r, elapsed)

\* a statement moves the caller to position p
Goto(t, p) == pc' = [pc EXCEPT ![t] = p]

\* ---- public operations: first statement -----------------------------------
\* get_engine, sqla lines 64-68, sqlax lines 160-164
GetEngine(t) ==
  /\ BeginCall(t, "get_engine")
  /\ IF EngineCached(CurrentEntry)
       THEN /\ ret' = [ret EXCEPT ![t] = Returned("engine", CurrentEntry)]
            /\ UNCHANGED <<pc, attempt, ui, url, engine, tmp, elapsed>>
       ELSE /\ ret' = [ret EXCEPT ![t] = NoRet]
            /\ EnterAcquire(t)
  /\ UNCHANGED <<shared, environment, records>>

\* get_new_session, sqla lines 55-56, sqlax lines 131-132
GetNewSession(t) ==
  /\ BeginCall(t, "get_new_session")
  /\ ret' = [ret EXCEPT ![t] = NoRet]
  /\ IF FactoryMissing(session_factory)
       THEN EnterAcquire(t)
       ELSE Goto(t, "s61") /\ UNCHANGED <<attempt, ui, url, engine, tmp, elapsed>>
  /\ UNCHANGED <<shared, environment, records>>

\* init_session_factory, sqla line 49, sqlax line 106: calls _get_or_create_engine
InitSessionFactory(t) ==
  /\ BeginCall(t, "init_session_factory")
  /\ ret' = [ret EXCEPT ![t] = NoRet]
  /\ EnterAcquire(t)
  /\ UNCHANGED <<shared, environment, records>>

\* ---- sqla: _get_or_create_engine, lines 27-46 ------------------------------
\* line 30: if self._engines[self._current_engine_index] is None
SqlaCheckSlot(t) ==
  /\ pc[t] = "a30"
  /\ IF SlotIsNone(engines[current_engine_index])
       THEN Goto(t, "a31") ELSE Goto(t, "a35")
  /\ UNCHANGED <<shared, environment, records, history>>
  /\ UNCHANGED <<op, calls_left, attempt, ui, url, engine, tmp, elapsed>>

\* lines 31-32: url = self.urls[index]; engine = self._create_engine_from_url(url);
\* an error that line 23 does not catch leaves the call at once
SqlaProbe(t) ==
  /\ pc[t] = "a31"
  /\ \E d \in ProbeTimes :
       LET u == current_engine_index
           out == DriverOutcome(u)
           ok == out = "ok"
       IN /\ ok => created[u] < MaxEngines
          /\ created' = [created EXCEPT ![u] = IF ok THEN @ + 1 ELSE @]
          /\ probed' = [probed EXCEPT ![t] = Append(@, u)]
          /\ IF ok \/ Caught(out)
               THEN /\ url' = [url EXCEPT ![t] = u]
                    /\ engine' = [engine EXCEPT ![t] = CreateEngineFromUrl(u, ok, created[u])]
                    /\ elapsed' = Advance(d)
                    /\ Goto(t, "a33")
                    /\ UNCHANGED <<attempt, ui, tmp, ret>>
               ELSE FinishFrom(t, Raised(out), Advance(d))
  /\ UNCHANGED <<variant, n, timeout_seconds, ctor, reflected_tables, engines, current_engine_index,
                 current_engine_index_url, session_factory, environment, records>>
  /\ UNCHANGED <<op, calls_left, slept, broke, built, snap, prev, arg, trace, body>>

\* line 33: self._engines[self._current_engine_index] = engine
SqlaStore(t) ==
  /\ pc[t] = "a33"
  /\ engines' = [engines EXCEPT ![current_engine_index] = engine[t]]
  /\ Goto(t, "a35")
  /\ UNCHANGED <<variant, n, timeout_seconds, ctor, reflected_tables, current_engine_index,
                 current_engine_index_url, session_factory, created, environment, records>>
  /\ UNCHANGED <<op, calls_left, attempt, ui, url, engine, tmp, elapsed>>
  /\ UNCHANGED history

\* line 35: if self._engines[self._current_engine_index]
SqlaTest(t) ==
  /\ pc[t] = "a35"
  /\ IF Truthy(engines[current_engine_index])
       THEN Goto(t, "a36") ELSE Goto(t, "a38")
  /\ UNCHANGED <<shared, environment, records, history>>
  /\ UNCHANGED <<op, calls_left, attempt, ui, url, engine, tmp, elapsed>>

\* line 36: return self._engines[self._current_engine_index]
SqlaReturn(t) ==
  /\ pc[t] = "a36"
  /\ engine' = [engine EXCEPT ![t] = engines[current_engine_index]]
  /\ Goto(t, IF op[t] \in EngineOps THEN "e71" ELSE "f49")
  /\ UNCHANGED <<shared, environment, records, history>>
  /\ UNCHANGED <<op, calls_left, attempt, ui, url, tmp, elapsed>>

\* line 38, right-hand side: (self._current_engine_index + 1) % len(self.urls)
SqlaNextIndex(t) ==
  /\ pc[t] = "a38"
  /\ tmp' = [tmp EXCEPT ![t] = NextIndex(current_engine_index, n)]
  /\ Goto(t, "a38w")
  /\ UNCHANGED <<shared, environment, records, history>>
  /\ UNCHANGED <<op, calls_left, attempt, ui, url, engine, elapsed>>

\* line 38, the store, and lines 40-42: break once the deadline is exceeded;
\* after the break line 46 raises
SqlaAdvance(t) ==
  /\ pc[t] = "a38w"
  /\ current_engine_index' = tmp[t]
  /\ IF DeadlineExceeded(elapsed[t], timeout_seconds)
       THEN /\ broke' = [broke EXCEPT ![t] = TRUE]
            /\ Finish(t, Raised("RuntimeError"))
            /\ UNCHANGED <<probed, slept, built, snap, prev, arg, trace, body>>
       ELSE /\ Goto(t, "a44")
            /\ UNCHANGED history
            /\ UNCHANGED <<attempt, ui, url, engine, tmp, elapsed>>
  /\ UNCHANGED <<variant, n, timeout_seconds, ctor, reflected_tables, engines, current_engine_index_url,
                 session_factory, created, environment, records, op, calls_left>>

\* line 44: time.sleep(2), then the next attempt, or line 46 after the last one
SqlaSleep(t) ==
  /\ pc[t] = "a44"
  /\ slept' = [slept EXCEPT ![t] = @ + 1]
  /\ IF attempt[t] + 1 < max_attempts
       THEN /\ Goto(t, "a30")
            /\ attempt' = [attempt EXCEPT ![t] = @ + 1]
            /\ elapsed' = Advance(SleepSqla)
            /\ UNCHANGED <<ui, url, engine, tmp, ret>>
       ELSE FinishFrom(t, Raised("RuntimeError"), Advance(SleepSqla))
  /\ UNCHANGED <<shared, environment, records, op, calls_left, probed, broke, built, snap, prev, arg, trace, body>>

\* ---- sqlax: _get_or_create_engine, lines 67-81 -----------------------------
\* lines 69-70: for url in self.urls: self._current_engine_index_url = url
SqlaxSelect(t) ==
  /\ pc[t] = "x70"
  /\ url' = [url EXCEPT ![t] = ui[t]]
  /\ current_engine_index_url' = ui[t]
  /\ Goto(t, "x72")
  /\ UNCHANGED <<variant, n, timeout_seconds, ctor, reflected_tables, engines, current_engine_index,
                 session_factory, created, environment, records, history>>
  /\ UNCHANGED <<op, calls_left, attempt, ui, engine, tmp, elapsed>>

\* line 72: if self._engines.get(url) is None
SqlaxCheck(t) ==
  /\ pc[t] = "x72"
  /\ IF GetIsNone(engines[url[t]]) THEN Goto(t, "x73") ELSE Goto(t, "x76")
  /\ UNCHANGED <<shared, environment, records, history>>
  /\ UNCHANGED <<op, calls_left, attempt, ui, url, engine, tmp, elapsed>>

\* line 73: engine = create_engine_from_url(url, **kwargs); an error that
\* line 36 does not catch leaves the call at once
SqlaxProbe(t) ==
  /\ pc[t] = "x73"
  /\ LET u == url[t]
         out == DriverOutcome(u)
         ok == out = "ok"
     IN /\ ok => created[u] < MaxEngines
        /\ created' = [created EXCEPT ![u] = IF ok THEN @ + 1 ELSE @]
        /\ probed' = [probed EXCEPT ![t] = Append(@, u)]
        /\ IF ok \/ Caught(out)
             THEN /\ engine' = [engine EXCEPT ![t] = CreateEngineFromUrl(u, ok, created[u])]
                  /\ Goto(t, "x74")
                  /\ UNCHANGED <<attempt, ui, url, tmp, elapsed, ret>>
             ELSE Finish(t, Raised(out))
  /\ UNCHANGED <<variant, n, timeout_seconds, ctor, reflected_tables, engines, current_engine_index,
                 current_engine_index_url, session_factory, environment, records>>
  /\ UNCHANGED <<op, calls_left, slept, broke, built, snap, prev, arg, trace, body>>

\* line 74: self._engines[url] = engine
SqlaxStore(t) ==
  /\ pc[t] = "x74"
  /\ engines' = [engines EXCEPT ![url[t]] = engine[t]]
  /\ Goto(t, "x76")
  /\ UNCHANGED <<variant, n, timeout_seconds, ctor, reflected_tables, current_engine_index,
                 current_engine_index_url, session_factory, created, environment, records>>
  /\ UNCHANGED <<op, calls_left, attempt, ui, url, engine, tmp, elapsed>>
  /\ UNCHANGED history

\* line 76: if self._engines[url]; otherwise the next url of the list, or
\* line 79 when the list is exhausted
SqlaxTest(t) ==
  /\ pc[t] = "x76"
  /\ IF Truthy(engines[url[t]])
       THEN Goto(t, "x77") /\ UNCHANGED ui
       ELSE IF ui[t] + 1 < n
         THEN Goto(t, "x70") /\ ui' = [ui EXCEPT ![t] = @ + 1]
         ELSE Goto(t, "x79") /\ UNCHANGED ui
  /\ UNCHANGED <<shared, environment, records, history>>
  /\ UNCHANGED <<op, calls_left, attempt, url, engine, tmp, elapsed>>

\* line 77: return self._engines[url]
SqlaxReturn(t) ==
  /\ pc[t] = "x77"
  /\ engine' = [engine EXCEPT ![t] = engines[url[t]]]
  /\ Goto(t, IF op[t] \in EngineOps THEN "e71" ELSE "f49")
  /\ UNCHANGED <<shared, environment, records, history>>
  /\ UNCHANGED <<op, calls_left, attempt, ui, url, tmp, elapsed>>

\* line 69: every pass of the while loop starts the for loop at self.urls[0];
\* the variation resumes the round at the last url
FirstOfRoundResumed(last) == last
FirstOfRound(last) == 0

\* line 79: time.sleep(1), then the next round, or line 81 after the last one
SqlaxSleep(t) ==
  /\ pc[t] = "x79"
  /\ slept' = [slept EXCEPT ![t] = @ + 1]
  /\ IF attempt[t] + 1 < retry_count
       THEN /\ Goto(t, "x70")
            /\ attempt' = [attempt EXCEPT ![t] = @ + 1]
            /\ ui' = [ui EXCEPT ![t] = FirstOfRound(@)]
            /\ UNCHANGED <<url, engine, tmp, elapsed, ret>>
       ELSE Finish(t, Raised("InitializeDatabaseException"))
  /\ UNCHANGED <<shared, environment, records, op, calls_left, probed, broke, built, snap, prev, arg, trace, body>>

\* ---- public operations: after _get_or_create_engine returned ---------------
\* init_session_factory, sqla lines 49-52, sqlax lines 106-109
BindFactory(t) ==
  /\ pc[t] = "f49"
  /\ IF Truthy(engine[t])
       THEN /\ session_factory' = RebindFactory(session_factory, engine[t])
            /\ built' = [built EXCEPT ![t] = @ + 1]
            /\ IF op[t] \in SessionOps
                 THEN /\ Goto(t, "s61")
                      /\ UNCHANGED <<attempt, ui, url, engine, tmp, elapsed, ret>>
                 ELSE Finish(t, Returned("ok", None))
       ELSE /\ Finish(t, Raised(IF variant = "sqla" THEN "RuntimeError"
                                ELSE "InitializeDatabaseException"))
            /\ UNCHANGED <<session_factory, built>>
  /\ UNCHANGED <<variant, n, timeout_seconds, ctor, reflected_tables, engines, current_engine_index,
                 current_engine_index_url, created, environment, records>>
  /\ UNCHANGED <<op, calls_left, probed, slept, broke, snap, prev, arg, trace, body>>

\* get_new_session hands r to its caller: the caller of the manager, or the
\* first statement of _get_managed_session (helper.py line 115, service.py line
\* 44), which then yields the session to the body of the with statement
GetNewSessionReturns(t, r) ==
  IF op[t] \in (SessionOps \ {"get_new_session"}) /\ r.kind = "session"
    THEN /\ Goto(t, IF op[t] \in BatchOps THEN "m116" ELSE "m117")
         /\ trace' = [trace EXCEPT ![t] = Append(@, "open")]
         /\ UNCHANGED <<attempt, ui, url, engine, tmp, elapsed, ret>>
    ELSE Finish(t, r) /\ UNCHANGED trace

\* variation of FreshSerial: the factory hands out the session it made first
\* (a scoped registry)
FreshSerialScoped(c) == IF c = 0 THEN 1 ELSE c

\* sessionmaker.__call__: every call constructs a new Session
FreshSerial(c) == c + 1

\* get_new_session, sqla line 61, sqlax line 137: return self._session_factory()
NewSession(t) ==
  /\ pc[t] = "s61"
  /\ IF session_factory = None
       THEN /\ GetNewSessionReturns(t, Raised("TypeError"))
            /\ UNCHANGED <<sessions_made, handed>>
       ELSE /\ GetNewSessionReturns(t, Returned("session", session_factory))
            /\ sessions_made' = IF sessions_made = NotCounted THEN NotCounted
                                ELSE FreshSerial(sessions_made)
            /\ handed' = IF sessions_made = NotCounted THEN handed
                         ELSE Append(handed, Session(session_factory, sessions_made'))
  /\ UNCHANGED <<shared, environment, seen, batch, op, calls_left, probed, slept, broke, built, snap, prev, arg, body>>

\* get_engine hands r to its caller: the caller of the manager, or line 74 / 190
\* of reflect_database
GetEngineReturns(t, r) ==
  IF op[t] = "reflect_database"
    THEN /\ engine' = [engine EXCEPT ![t] = r.val]
         /\ Goto(t, "r75")
         /\ UNCHANGED <<attempt, ui, url, tmp, elapsed, ret>>
    ELSE Finish(t, r)

\* get_engine, sqla line 71, sqlax line 167: return self._engines[current] or None
ReturnEngine(t) ==
  /\ pc[t] = "e71"
  /\ IF variant = "sqlax" /\ (current_engine_index_url = NoUrl
                              \/ engines[current_engine_index_url] = Absent)
       THEN Finish(t, Raised("KeyError"))
       ELSE IF Truthy(CurrentEntry)
         THEN GetEngineReturns(t, Returned("engine", CurrentEntry))
         ELSE GetEngineReturns(t, Returned("None", None))
  /\ UNCHANGED <<shared, environment, records, op, calls_left, probed, slept, broke, built, snap, prev, arg, trace, body>>

\* ---- reflection -----------------------------------------------------------
\* the tables that MetaData().reflect(bind=engine) finds through an engine of urls[u]
Visible(u) == {Table(u, name) : name \in schema[u]}

\* variation of ReflectedTables: the tables found are added to the cache
ReflectedTablesMerged(old, found) ==
  IF old = NoAttribute THEN found ELSE old \cup found

\* sqla lines 81-83, sqlax lines 197-199: self.reflected_tables = {}, then one
\* entry per table found
ReflectedTables(old, found) == found

\* variation of LookupTable: the cache is read without the hasattr test
LookupTableNoHasattr(cache, name) ==
  IF cache = NoAttribute THEN Raised("AttributeError")
  ELSE IF \E tb \in cache : tb[2] = name
    THEN Returned("table", CHOOSE tb \in cache : tb[2] = name)
    ELSE Returned("None", None)

\* get_reflected_table, sqla lines 86-89, sqlax lines 222-225
LookupTable(cache, name) ==
  IF cache # NoAttribute /\ \E tb \in cache : tb[2] = name
    THEN Returned("table", CHOOSE tb \in cache : tb[2] = name)
    ELSE Returned("None", None)

\* reflect_database, sqla line 74, sqlax line 190: engine = self.get_engine()
ReflectDatabase(t) ==
  /\ BeginCall(t, "reflect_database")
  /\ ret' = [ret EXCEPT ![t] = NoRet]
  /\ IF EngineCached(CurrentEntry)
       THEN /\ engine' = [engine EXCEPT ![t] = CurrentEntry]
            /\ Goto(t, "r75")
            /\ UNCHANGED <<attempt, ui, url, tmp, elapsed>>
       ELSE EnterAcquire(t)
  /\ UNCHANGED <<shared, environment, records>>

\* sqla lines 75-76, sqlax lines 191-192: if engine is None: raise
ReflectCheck(t) ==
  /\ pc[t] = "r75"
  /\ IF engine[t] = None
       THEN Finish(t, Raised(IF variant = "sqla" THEN "RuntimeError"
                             ELSE "InitializeDatabaseException"))
       ELSE /\ Goto(t, "r78")
            /\ UNCHANGED <<attempt, ui, url, engine, tmp, elapsed, ret>>
  /\ UNCHANGED <<shared, environment, records, op, calls_left, probed, slept, broke, built, snap, prev, arg, trace, body>>

\* sqla lines 78-83, sqlax lines 194-199: reflect through the engine, which
\* raises when its database cannot be reached, then replace the cache
Reflect(t) ==
  /\ pc[t] = "r78"
  /\ LET u == engine[t][1]
     IN IF u \in connectable
          THEN /\ reflected_tables' = ReflectedTables(reflected_tables, Visible(u))
               /\ seen' = Visible(u)
               /\ Finish(t, Returned("ok", None))
          ELSE /\ Finish(t, Raised("OperationalError"))
               /\ UNCHANGED <<reflected_tables, seen>>
  /\ UNCHANGED <<variant, n, timeout_seconds, ctor, engines, current_engine_index,
                 current_engine_index_url, session_factory, created, environment>>
  /\ UNCHANGED <<sessions_made, handed, batch>>
  /\ UNCHANGED <<op, calls_left, probed, slept, broke, built, snap, prev, arg, trace, body>>

\* get_reflected_table(name), sqla lines 85-89, sqlax lines 201-225
GetReflectedTable(t, name) ==
  /\ BeginCallWith(t, "get_reflected_table", name)
  /\ ret' = [ret EXCEPT ![t] = LookupTable(reflected_tables, name)]
  /\ UNCHANGED <<pc, attempt, ui, url, engine, tmp, elapsed>>
  /\ UNCHANGED <<shared, environment, records>>

\* ---- environment ----------------------------------------------------------
\* a database becomes reachable or unreachable
SetConnectable(u) ==
  /\ u \in Urls
  /\ connectable' = IF u \in connectable THEN connectable \ {u}
                    ELSE connectable \cup {u}
  /\ UNCHANGED <<shared, locals, history, records, crashing, schema, db>>

\* ---- the managed session of the CRUD helpers ---------------------------------
\* how the body of "with self._get_managed_session() as session" can end: it
\* returns, raises an error (an Exception), or raises a BaseException that is
\* not an Exception (KeyboardInterrupt, SystemExit)
BodyOutcomes == {"returns", "Exception", "BaseException"}

\* variation of ExceptException: the except clause catches nothing
ExceptExceptionNever(kind) == FALSE

\* helper.py line 118, service.py line 47 (sqla line 47): except Exception as e
ExceptException(kind) == kind = "Exception"

\* execute_within_session and the other helper methods, helper.py line 186:
\* with self._get_managed_session() as session; the context manager starts
\* with session = get_new_session() (helper.py line 115, service.py line 44)
ExecuteWithinSession(t) ==
  /\ BeginCall(t, "execute_within_session")
  /\ ret' = [ret EXCEPT ![t] = NoRet]
  /\ IF FactoryMissing(session_factory)
       THEN EnterAcquire(t)
       ELSE Goto(t, "s61") /\ UNCHANGED <<attempt, ui, url, engine, tmp, elapsed>>
  /\ UNCHANGED <<shared, environment, records>>

\* helper.py lines 116-118: yield session; the body runs and ends, having
\* committed a transaction (session.commit()) or not
Body(t) ==
  /\ pc[t] = "m117"
  /\ \E out \in BodyOutcomes, committed \in BOOLEAN :
       /\ committed => db < MaxCommits
       /\ db' = IF committed THEN db + 1 ELSE db
       /\ body' = [body EXCEPT ![t] = out]
       /\ Goto(t, IF out = "returns" THEN "m122"
                  ELSE IF ExceptException(out) THEN "m119" ELSE "m122b")
  /\ UNCHANGED <<shared, connectable, crashing, schema, records>>
  /\ UNCHANGED <<op, calls_left, attempt, ui, url, engine, tmp, elapsed>>
  /\ UNCHANGED <<ret, probed, slept, broke, built, snap, prev, arg, trace>>

\* helper.py lines 119-120 (sqla service.py lines 48-50): session.rollback(),
\* then raise exc.DatabaseException(e), which the finally clause lets pass
\* after it has run
Rollback(t) ==
  /\ pc[t] = "m119"
  /\ trace' = [trace EXCEPT ![t] = Append(@, "rollback")]
  /\ Goto(t, "m122d")
  /\ UNCHANGED <<shared, environment, records>>
  /\ UNCHANGED <<op, calls_left, attempt, ui, url, engine, tmp, elapsed>>
  /\ UNCHANGED <<ret, probed, slept, broke, built, snap, prev, arg, body>>

\* what the helper method returns after its with statement: bulk_insert the
\* dictionaries of its instances (helper.py line 217), the others None
Result(t) ==
  IF op[t] = "bulk_insert" THEN Returned("list", data[t]) ELSE Returned("ok", None)

\* helper.py lines 121-122: finally: session.close(); then the with statement
\* ends as the body ended, or with the DatabaseException raised in the handler
Close(t) ==
  /\ pc[t] \in {"m122", "m122b", "m122d"}
  /\ trace' = [trace EXCEPT ![t] = Append(@, "close")]
  /\ Finish(t, IF pc[t] = "m122" THEN Result(t)
               ELSE IF pc[t] = "m122d" THEN Raised("DatabaseException")
               ELSE Raised(body[t]))
  /\ work' = [work EXCEPT ![t] = <<>>]
  /\ row' = [row EXCEPT ![t] = 0]
  /\ UNCHANGED <<shared, environment, sessions_made, handed, seen, table, data, before>>
  /\ UNCHANGED <<op, calls_left, probed, slept, broke, built, snap, prev, arg, body>>

\* ---- the batch helpers: upsert and bulk_insert --------------------------------
\* the table of model_class has a conflict-target column and one other column;
\* a record of the table and a row of the input give a value to each, one of
\* two values
Keys == {1, 2}
Vals == {1, 2}
Rows == {<<k, v>> : k \in Keys, v \in Vals}
SeqsUpTo(S, len) == UNION {[1..m -> S] : m \in 0..len}
Datas == SeqsUpTo(Rows, MaxRows)

\* at most one record for each value of the conflict-target column
Unique(w) == \A i, j \in 1..Len(w) : w[i][1] = w[j][1] => i = j
UniqueTables == {w \in SeqsUpTo(Rows, Cardinality(Keys)) : Unique(w)}

\* helper.py lines 240-243: session.query(model_class).filter(*c).first(): the
\* position of the first record with the row's conflict-target value, 0 for None
First(w, k) ==
  IF \E i \in 1..Len(w) : w[i][1] = k
    THEN CHOOSE i \in 1..Len(w) : w[i][1] = k /\ \A j \in 1..(i - 1) : w[j][1] # k
    ELSE 0

\* helper.py lines 243-249: the record found gets the row's values, or a new
\* instance is added; the variation adds an instance for every row
UpsertedByInsert(w, r) == Append(w, r)
Upserted(w, r) ==
  LET i == First(w, r[1])
  IN  IF i # 0 THEN [w EXCEPT ![i] = r] ELSE Append(w, r)

\* the committed table after a statement of a session whose transaction sees
\* w: what the session has flushed reaches the table when session.commit()
\* returns; the variation commits every flush at once
PersistedAtOnce(tbl, w, commit) == w
Persisted(tbl, w, commit) == IF commit THEN w ELSE tbl

\* the errors with which a statement of the body can end
Errors == BodyOutcomes \ {"returns"}

\* a statement of the body raises: helper.py line 118 catches it or not
BodyRaises(t, out) ==
  /\ body' = [body EXCEPT ![t] = out]
  /\ Goto(t, IF ExceptException(out) THEN "m119" ELSE "m122b")

\* upsert(model_class, data, conflict_target) and bulk_insert(model_class,
\* data), helper.py lines 239 and 210: with self._get_managed_session()
BatchCall(t, o, d) ==
  /\ BeginCall(t, o)
  /\ ret' = [ret EXCEPT ![t] = NoRet]
  /\ data' = [data EXCEPT ![t] = d]
  /\ before' = [before EXCEPT ![t] = [table |-> table, data |-> data[t]]]
  /\ IF FactoryMissing(session_factory)
       THEN EnterAcquire(t)
       ELSE Goto(t, "s61") /\ UNCHANGED <<attempt, ui, url, engine, tmp, elapsed>>
  /\ UNCHANGED <<shared, environment, sessions_made, handed, seen, table, work, row>>

Upsert(t) == \E d \in Datas : BatchCall(t, "upsert", d)

BulkInsert(t) == \E d \in Datas : BatchCall(t, "bulk_insert", d)

\* the session yielded to the body begins its transaction on the table as
\* committed; helper.py line 240: for row in data
BeginTransaction(t) ==
  /\ pc[t] = "m116"
  /\ work' = [work EXCEPT ![t] = table]
  /\ row' = [row EXCEPT ![t] = 1]
  /\ Goto(t, IF op[t] = "upsert" THEN "u240" ELSE "b211")
  /\ UNCHANGED <<shared, environment, sessions_made, handed, seen, table, data, before>>
  /\ UNCHANGED <<op, calls_left, attempt, ui, url, engine, tmp, elapsed, history>>

\* upsert, helper.py lines 240-249: one row is looked up and staged, or the
\* lookup, the constructor or the flush raises
UpsertRow(t) ==
  /\ pc[t] = "u240"
  /\ IF row[t] > Len(data[t])
       THEN /\ Goto(t, "u251")
            /\ UNCHANGED <<work, row, table, body>>
       ELSE \/ /\ work' = [work EXCEPT ![t] = Upserted(@, data[t][row[t]])]
               /\ row' = [row EXCEPT ![t] = @ + 1]
               /\ table' = Persisted(table, work'[t], FALSE)
               /\ UNCHANGED <<pc, body>>
            \/ /\ \E out \in Errors : BodyRaises(t, out)
               /\ UNCHANGED <<work, row, table>>
  /\ UNCHANGED <<shared, environment, sessions_made, handed, seen, data, before>>
  /\ UNCHANGED <<op, calls_left, attempt, ui, url, engine, tmp, elapsed>>
  /\ UNCHANGED <<ret, probed, slept, broke, built, snap, prev, arg, trace>>

\* helper.py lines 251 and 213: session.commit() returns, or raises and leaves
\* the table as it was; after it upsert is at the end of its body, bulk_insert
\* at line 215
Commit(t) ==
  /\ pc[t] \in {"u251", "b213"}
  /\ \/ /\ db < MaxCommits
        /\ db' = db + 1
        /\ table' = Persisted(table, work[t], TRUE)
        /\ trace' = [trace EXCEPT ![t] = Append(@, "commit")]
        /\ IF op[t] = "upsert"
             THEN body' = [body EXCEPT ![t] = "returns"] /\ Goto(t, "m122")
             ELSE Goto(t, "b215") /\ UNCHANGED body
     \/ /\ \E out \in Errors : BodyRaises(t, out)
        /\ UNCHANGED <<db, table, trace>>
  /\ UNCHANGED <<shared, connectable, crashing, schema, sessions_made, handed, seen>>
  /\ UNCHANGED <<work, data, row, before>>
  /\ UNCHANGED <<op, calls_left, attempt, ui, url, engine, tmp, elapsed>>
  /\ UNCHANGED <<ret, probed, slept, broke, built, snap, prev, arg>>

\* bulk_insert, helper.py lines 211-212: the instances are constructed and
\* handed to session.add_all, or a constructor raises
BulkAddAll(t) ==
  /\ pc[t] = "b211"
  /\ \/ /\ work' = [work EXCEPT ![t] = @ \o data[t]]
        /\ table' = Persisted(table, work'[t], FALSE)
        /\ Goto(t, "b213")
        /\ UNCHANGED body
     \/ /\ \E out \in Errors : BodyRaises(t, out)
        /\ UNCHANGED <<work, table>>
  /\ UNCHANGED <<shared, environment, sessions_made, handed, seen, data, row, before>>
  /\ UNCHANGED <<op, calls_left, attempt, ui, url, engine, tmp, elapsed>>
  /\ UNCHANGED <<ret, probed, slept, broke, built, snap, prev, arg, trace>>

\* bulk_insert, helper.py line 215: instance.to_dict() for every instance,
\* after the commit and still inside the with statement
BulkToDict(t) ==
  /\ pc[t] = "b215"
  /\ \/ body' = [body EXCEPT ![t] = "returns"] /\ Goto(t, "m122")
     \/ \E out \in Errors : BodyRaises(t, out)
  /\ UNCHANGED <<shared, environment, records>>
  /\ UNCHANGED <<op, calls_left, attempt, ui, url, engine, tmp, elapsed>>
  /\ UNCHANGED <<ret, probed, slept, broke, built, snap, prev, arg, trace>>

\* a table is created in or dropped from the database of urls[u]; the schema is
\* read by one statement only (Reflect), so a change during a call has the
\* effect of the same change before or after the call, and the changes are
\* taken between the calls
SchemaChange(u, name) ==
  /\ u \in Urls
  /\ \A t \in Threads : pc[t] = "idle"
  /\ schema' = [schema EXCEPT ![u] = IF name \in @ THEN @ \ {name} ELSE @ \cup {name}]
  /\ UNCHANGED <<shared, locals, history, records, connectable, crashing, db>>

\* ---- specifications -------------------------------------------------------
\* the statements of _get_or_create_engine, both variants
LoopStep(t) ==
  \/ SqlaCheckSlot(t) \/ SqlaProbe(t) \/ SqlaStore(t) \/ SqlaTest(t)
  \/ SqlaReturn(t) \/ SqlaNextIndex(t) \/ SqlaAdvance(t) \/ SqlaSleep(t)
  \/ SqlaxSelect(t) \/ SqlaxCheck(t) \/ SqlaxProbe(t) \/ SqlaxStore(t)
  \/ SqlaxTest(t) \/ SqlaxReturn(t) \/ SqlaxSleep(t)

Step(t) ==
  \/ GetEngine(t) \/ GetNewSession(t) \/ InitSessionFactory(t)
  \/ LoopStep(t)
  \/ BindFactory(t) \/ NewSession(t) \/ ReturnEngine(t)

\* sequential use: one caller, databases come and go
Next ==
  \/ Step(Main)
  \/ \E u \in 0..(MaxUrls - 1) : SetConnectable(u)

Spec == Init /\ [][Next]_vars

\* a get_engine call that is not the caller's first call
LaterGetEngine(t) == op[t] # "none" /\ GetEngine(t)

\* sequential use that starts with get_new_session and goes on with any sequence
\* of get_new_session and get_engine, while the reachability of every database
\* stays as it was at construction
NextStable ==
  \/ LaterGetEngine(Main) \/ GetNewSession(Main)
  \/ LoopStep(Main)
  \/ BindFactory(Main) \/ NewSession(Main) \/ ReturnEngine(Main)

SpecStable == Init /\ [][NextStable]_vars

\* one caller that calls get_new_session again and again, each statement of a
\* call being executed eventually; reachability stays as at construction
NextFailover ==
  \/ GetNewSession(Main)
  \/ LoopStep(Main)
  \/ BindFactory(Main) \/ NewSession(Main)

SpecFailover == Init /\ [][NextFailover]_vars /\ WF_vars(NextFailover)

\* concurrent use: NumThreads callers, each making up to MaxCalls calls of
\* get_engine and get_new_session, on one manager with the default timeout and
\* at most two URLs
InitConcurrent ==
  /\ InitBase /\ InitPlain /\ n <= 2 /\ timeout_seconds = DefaultTimeout
  /\ calls_left = [t \in Threads |-> MaxCalls]

NextConcurrent ==
  \E t \in Threads :
    \/ GetEngine(t) \/ GetNewSession(t)
    \/ LoopStep(t)
    \/ BindFactory(t) \/ NewSession(t) \/ ReturnEngine(t)

SpecConcurrent == InitConcurrent /\ [][NextConcurrent]_vars

\* ---- properties: vocabulary ------------------------------------------------
\* the sequential caller is between two calls and its last call has an outcome
Done == pc[Main] = "idle" /\ ret[Main].kind # "none"

Range(q) == {q[i] : i \in 1..Len(q)}

\* the current selection is the one the running (or last) call started from
SelectionKept ==
  /\ current_engine_index = snap[Main].index
  /\ current_engine_index_url = snap[Main].index_url

\* the engine entry of the selection at the start of the running (or last) call
EntryAtStart ==
  IF variant = "sqla" THEN snap[Main].engines[snap[Main].index]
  ELSE IF snap[Main].index_url = NoUrl THEN None
  ELSE snap[Main].engines[snap[Main].index_url]

\* ---- C2 ---------------------------------------------------------------------
\* C2: in the sqla variant a get_new_session() or get_engine() call never makes
\* more than 3 probes, and when it raises without the deadline having been
\* exceeded (every probe failed) it has made exactly 3 probes and raises the
\* connection-unavailable RuntimeError.
C2_ExactlyMaxAttempts ==
  (variant = "sqla" /\ op[Main] \in {"get_new_session", "get_engine"}) =>
    /\ Len(probed[Main]) <= 3
    /\ (Done /\ ret[Main].kind = "raise" /\ ~broke[Main]) =>
         /\ Len(probed[Main]) = 3
         /\ ret[Main].exc = "RuntimeError"

C2_Witness ==
  /\ variant = "sqla" /\ op[Main] = "get_engine" /\ Done
  /\ ret[Main].kind = "raise" /\ ~broke[Main] /\ Len(probed[Main]) = 3
  /\ n = 2 /\ connectable = {}

\* ---- C4 ---------------------------------------------------------------------
\* C4: a get_engine() call that immediately follows a get_engine() call which
\* returned an engine completes in its first statement without a probe, returns
\* the same engine and leaves the engine cache and the selection unchanged.
C4_CacheHitIdempotent ==
  (op[Main] = "get_engine" /\ prev[Main].op = "get_engine"
     /\ prev[Main].ret.kind = "engine") =>
    /\ pc[Main] = "idle"
    /\ probed[Main] = <<>>
    /\ ret[Main] = prev[Main].ret
    /\ engines = snap[Main].engines
    /\ SelectionKept

C4_Witness ==
  /\ op[Main] = "get_engine" /\ prev[Main].op = "get_engine"
  /\ prev[Main].ret.kind = "engine" /\ Done
  /\ ret[Main].val = Engine(1, 1) /\ 0 \in connectable

\* ---- C7 ---------------------------------------------------------------------
\* C7: with one caller at most one engine is ever created per URL, and an entry
\* of the engine cache that holds an engine never changes again.
C7_OneEnginePerUrl ==
  /\ [](\A u \in Urls : created[u] <= 1)
  /\ [][\A u \in Urls : IsEngine(engines[u]) => engines'[u] = engines[u]]_vars

C7_Witness ==
  /\ Done /\ prev[Main].ret.kind # "none"
  /\ \E u \in Urls : /\ created[u] = 1
                     /\ IsEngine(snap[Main].engines[u])
                     /\ u \in connectable
  /\ op[Main] = "init_session_factory"

\* ---- C9 ---------------------------------------------------------------------
\* C9: between two operations of a single caller, a cached session factory is
\* bound to the engine cached for the currently selected URL.
C9_FactoryBoundToSelection ==
  (pc[Main] = "idle" /\ session_factory # None) =>
    /\ IsEngine(CurrentEntry)
    /\ session_factory = SessionMaker(CurrentEntry)

\* the selection changed during a call that started with a factory
C9_Witness ==
  /\ Done /\ session_factory # None /\ snap[Main].factory # None
  /\ ~SelectionKept
  /\ session_factory # snap[Main].factory

\* ---- C10 --------------------------------------------------------------------
\* C10: a get_new_session() call that finds a session factory makes no probe,
\* takes no sleep, builds no factory, leaves the factory, the selection and the
\* engine cache as they were, and returns a session of that factory.
C10_FactoryReused ==
  (op[Main] = "get_new_session" /\ snap[Main].factory # None) =>
    /\ probed[Main] = <<>>
    /\ slept[Main] = 0
    /\ built[Main] = 0
    /\ session_factory = snap[Main].factory
    /\ engines = snap[Main].engines
    /\ SelectionKept
    /\ Done => ret[Main] = Returned("session", snap[Main].factory)

C10_Witness ==
  /\ op[Main] = "get_new_session" /\ snap[Main].factory # None /\ Done
  /\ ret[Main].kind = "session"
  /\ prev[Main].op = "get_new_session"

\* ---- C5 ---------------------------------------------------------------------
AcquisitionOps == {"get_engine", "get_new_session", "init_session_factory"}

SomeEngineAtStart == \E u \in Urls : IsEngine(snap[Main].engines[u])

\* the first URL of the list that had an engine when the call started
FirstCachedAtStart ==
  CHOOSE u \in Urls : /\ IsEngine(snap[Main].engines[u])
                      /\ \A v \in Urls : IsEngine(snap[Main].engines[v]) => u <= v

\* no probe, the selection kept, and the selected cached engine returned
ServedFromCache ==
  /\ probed[Main] = <<>>
  /\ SelectionKept
  /\ IsEngine(EntryAtStart)
  /\ Done => /\ ret[Main].kind \in {"engine", "session", "ok"}
             /\ ret[Main].kind \in {"engine", "session"} => ret[Main].val = EntryAtStart
             /\ ret[Main].kind \in {"session", "ok"} => session_factory = EntryAtStart

\* C5 as stated: whenever some URL has a cached engine, every acquisition is
\* served from the cache, in both variants.
C5_AlwaysServedFromCache ==
  (SomeEngineAtStart /\ op[Main] \in AcquisitionOps) => ServedFromCache

\* C5, amended: the statement holds in the sqla variant, and in the sqlax variant
\* for get_engine and for get_new_session with a built factory; the sqlax calls
\* that run the retry loop (init_session_factory, get_new_session without a
\* factory) probe only URLs before the first cached one that have no engine,
\* and select the lowest URL that has an engine or connects.
C5_PreferCached ==
  (SomeEngineAtStart /\ op[Main] \in AcquisitionOps) =>
    IF \/ variant = "sqla"
       \/ op[Main] = "get_engine"
       \/ (op[Main] = "get_new_session" /\ snap[Main].factory # None)
    THEN ServedFromCache
    ELSE /\ \A i \in 1..Len(probed[Main]) :
              /\ probed[Main][i] < FirstCachedAtStart
              /\ ~IsEngine(snap[Main].engines[probed[Main][i]])
         /\ Len(probed[Main]) <= FirstCachedAtStart
         /\ slept[Main] = 0
         /\ Done => /\ ret[Main].kind \in {"session", "ok"}
                    /\ current_engine_index_url <= FirstCachedAtStart
                    /\ IsEngine(CurrentEntry)
                    /\ session_factory = CurrentEntry
                    /\ \A u \in Urls : u < current_engine_index_url => ~IsEngine(engines[u])

\* sqla: an earlier URL that failed before is connectable again, and the call
\* still returned the selected cached engine
C5_Witness ==
  /\ variant = "sqla" /\ op[Main] = "init_session_factory" /\ Done
  /\ SomeEngineAtStart /\ snap[Main].index = 2
  /\ {0, 1} \subseteq connectable
  /\ session_factory = Engine(2, 1)

\* ---- C6 ---------------------------------------------------------------------
\* C6: a call that raises without the deadline having been exceeded has probed
\* every URL of the list at least once.
C6_AllTriedBeforeRaise ==
  (Done /\ ret[Main].kind = "raise" /\ ~broke[Main]) =>
    Urls \subseteq Range(probed[Main])

\* what the code does guarantee: all URLs are tried in sqlax, and in sqla for
\* lists of at most max_attempts URLs
C6_AllTriedShortList ==
  (Done /\ ret[Main].kind = "raise" /\ ~broke[Main]
     /\ (variant = "sqlax" \/ n <= 3)) =>
    Urls \subseteq Range(probed[Main])

\* ---- C1 ---------------------------------------------------------------------
\* C1: when exactly one URL of the list is connectable and stays so, a caller
\* that keeps calling get_new_session() gets a session again and again, for
\* every list length and position of that URL, and once a call has returned a
\* session no later call raises.
C1_FailoverEventuallySucceeds ==
  /\ []<>(Cardinality(connectable) # 1 \/ ret[Main].kind = "session")
  /\ []((Cardinality(connectable) = 1 /\ ret[Main].kind = "session")
          => [](ret[Main].kind # "raise"))

\* sqla, four URLs, only the last one connectable: a session after a failed call
C1_Witness ==
  /\ variant = "sqla" /\ n = 4 /\ connectable = {3}
  /\ Done /\ ret[Main].kind = "session"
  /\ prev[Main].ret.kind = "raise" /\ ~broke[Main]
  /\ probed[Main] = <<3>>

\* ---- C3 ---------------------------------------------------------------------
\* the list [bad, ok]: urls[0] never connects, urls[1] connects
BadOk == n = 2 /\ connectable = {1}

IsPrefix(p, q) == Len(p) <= Len(q) /\ \A i \in 1..Len(p) : p[i] = q[i]

FirstGetNewSession == prev[Main].op = "none" /\ op[Main] = "get_new_session"

\* C3 as stated: in the scenario the first get_new_session() probes bad, then
\* ok, and returns a session of the ok engine; every later call probes nothing
\* and uses the cached ok engine.
C3_BadThenOkInFirstCall ==
  BadOk =>
    /\ FirstGetNewSession =>
         /\ IsPrefix(probed[Main], <<0, 1>>)
         /\ Done => /\ probed[Main] = <<0, 1>>
                    /\ ret[Main] = Returned("session", Engine(1, 1))
    /\ prev[Main].op # "none" =>
         /\ probed[Main] = <<>>
         /\ Done => /\ ret[Main].kind \in {"engine", "session"}
                    /\ ret[Main].val = Engine(1, 1)

\* C3, amended: bad is probed once and ok is probed once, in that order, by the
\* first get_new_session(), unless in sqla the deadline is exceeded after the
\* failed probe of bad: that call then raises having probed bad only, and the
\* next call probes ok only. Once the ok engine is cached (sqla) or the factory
\* is built (sqlax), no call probes any URL and every call uses the ok engine.
C3_BadThenOk ==
  BadOk =>
    /\ FirstGetNewSession =>
         /\ IsPrefix(probed[Main], <<0, 1>>)
         /\ Done =>
              \/ /\ probed[Main] = <<0, 1>>
                 /\ ret[Main] = Returned("session", Engine(1, 1))
              \/ /\ variant = "sqla" /\ broke[Main]
                 /\ probed[Main] = <<0>>
                 /\ ret[Main] = Raised("RuntimeError")
                 /\ current_engine_index = 1
    /\ (variant = "sqla" /\ op[Main] # "none" /\ snap[Main].index = 1
          /\ ~IsEngine(snap[Main].engines[1])) =>
         /\ IsPrefix(probed[Main], <<1>>)
         /\ Done => /\ probed[Main] = <<1>>
                    /\ ret[Main].kind \in {"engine", "session"}
                    /\ ret[Main].val = Engine(1, 1)
    /\ (op[Main] # "none"
          /\ \/ snap[Main].factory # None
             \/ variant = "sqla" /\ IsEngine(snap[Main].engines[1])) =>
         /\ probed[Main] = <<>>
         /\ Done => /\ ret[Main].kind \in {"engine", "session"}
                    /\ ret[Main].val = Engine(1, 1)
    /\ created[0] = 0 /\ created[1] <= 1

\* a get_engine() call after the first get_new_session() of the scenario
C3_Witness ==
  /\ BadOk /\ Done /\ op[Main] = "get_engine"
  /\ prev[Main].op = "get_new_session" /\ prev[Main].ret.kind = "session"
  /\ snap[Main].factory = Engine(1, 1)
  /\ ret[Main] = Returned("engine", Engine(1, 1))

\* ---- C8 ---------------------------------------------------------------------
\* C8: with concurrent callers no URL has two engines created for it.
C8_NoDuplicateEngines == \A u \in Urls : created[u] <= 1

\* ---- numbered sessions -----------------------------------------------------
\* sequential use in which the sessions are numbered as the factories make them;
\* the caller makes up to MaxSessionCalls calls on a manager of at most two URLs
InitSessions ==
  /\ InitBase /\ n <= 2
  /\ table = <<>>
  /\ crashing = {}
  /\ schema = [u \in Urls |-> {}]
  /\ sessions_made = 0
  /\ calls_left = [t \in Threads |-> IF t = Main THEN MaxSessionCalls ELSE 0]

SpecSessions == InitSessions /\ [][Next]_vars

\* ---- C11 --------------------------------------------------------------------
\* C11: the sessions returned by get_new_session() are pairwise distinct (N
\* returned sessions are N different objects), no field of the manager holds a
\* session that was handed out, and a get_new_session() call that finds a
\* session factory leaves the whole manager state as it was.
C11_FreshSessions ==
  /\ \A i, j \in 1..Len(handed) : i # j => handed[i] # handed[j]
  /\ session_factory \notin Range(handed)
  /\ \A u \in Urls : engines[u] \notin Range(handed)
  /\ (Done /\ op[Main] = "get_new_session" /\ snap[Main].factory # None) =>
       /\ ret[Main].kind = "session"
       /\ Snapshot = snap[Main]

C11_Witness ==
  /\ Len(handed) = 3 /\ Done /\ op[Main] = "get_new_session"
  /\ snap[Main].factory # None /\ handed[1][3] # handed[3][3]
\* ---- drivers that fail with other errors ------------------------------------
\* sequential use on a manager of at most MaxUrlsDriver URLs, some of which have
\* a driver that fails with an error that is not an SQLAlchemyError
InitDriver ==
  /\ InitBase /\ n <= MaxUrlsDriver
  /\ table = <<>>
  /\ crashing \in SUBSET Urls
  /\ schema = [u \in Urls |-> {}]
  /\ sessions_made = NotCounted
  /\ calls_left = [t \in Threads |-> Unlimited]

SpecDriver == InitDriver /\ [][Next]_vars

\* the errors by which an acquisition reports that no connection is available
Unavailable == {"RuntimeError", "InitializeDatabaseException"}

\* ---- C12 --------------------------------------------------------------------
\* C12: a probe that fails, whatever error the driver raises, does not end the
\* call: while a call is past a failed probe it is still in the retry loop, and
\* a call that raises raises the connection-unavailable error, never the
\* driver's error.
C12_ProbeErrorsNeverSurface ==
  (Done /\ ret[Main].kind = "raise") => ret[Main].exc \in Unavailable

\* ---- C13 --------------------------------------------------------------------
\* the running (or last) call is an acquisition whose previous call raised the
\* connection-unavailable error
AfterFailure ==
  /\ op[Main] \in AcquisitionOps
  /\ prev[Main].ret.kind = "raise" /\ prev[Main].ret.exc \in Unavailable

\* the running (or last) call is the first call on the manager
FirstCall == op[Main] \in AcquisitionOps /\ prev[Main].op = "none"

\* the URL at which the running (or last) call starts to probe
StartUrl == IF variant = "sqla" THEN snap[Main].index ELSE 0

\* the number of probes of a call in which every probe fails quickly
FullBudget == IF variant = "sqla" THEN 3 ELSE 3 * n

\* C13 as stated: the acquisition that follows a failed acquisition starts at
\* the URL at which the first acquisition on a fresh manager starts, urls[0].
C13_RestartsLikeFresh ==
  (AfterFailure /\ probed[Main] # <<>>) => probed[Main][1] = 0

\* C13, amended: the first acquisition on a fresh manager and an acquisition
\* that follows a failed one obey the same rule. The call starts with no engine
\* cached and no session factory, probes the URLs in list order, wrapping, from
\* its starting URL, has the full budget (it raises the connection-unavailable
\* error without a deadline break only after 3 probes in sqla and 3 rounds over
\* the list in sqlax), and ends at its first successful probe by returning the
\* engine of that URL, which is then the selection. The starting URL is urls[0]
\* for the first call and for every sqlax call; a sqla call starts at the
\* persisted index, which after a failure need not be 0.
C13_RetryAfterFailure ==
  (AfterFailure \/ FirstCall) =>
    /\ \A u \in Urls : ~IsEngine(snap[Main].engines[u])
    /\ snap[Main].factory = None
    /\ FirstCall => StartUrl = 0
    /\ \A i \in 1..Len(probed[Main]) : probed[Main][i] = (StartUrl + i - 1) % n
    /\ Len(probed[Main]) <= FullBudget
    /\ (Done /\ ret[Main].kind = "raise" /\ ret[Main].exc \in Unavailable) =>
         /\ ~broke[Main] => Len(probed[Main]) = FullBudget
         /\ \A u \in Urls : ~IsEngine(engines[u])
    /\ (Done /\ ret[Main].kind # "raise") =>
         /\ probed[Main] # <<>>
         /\ IsEngine(CurrentEntry)
         /\ CurrentEntry[1] = probed[Main][Len(probed[Main])]
         /\ \A u \in Urls : IsEngine(engines[u]) => engines[u] = CurrentEntry
         /\ ret[Main].kind \in {"engine", "session"} => ret[Main].val = CurrentEntry

C13_Witness ==
  /\ AfterFailure /\ variant = "sqla" /\ n = 2 /\ snap[Main].index = 1
  /\ Done /\ ret[Main].kind = "engine" /\ probed[Main] = <<1, 0>>

\* ---- databases that change between calls ------------------------------------
\* a database becomes reachable or unreachable while no call is running
SetConnectableIdle(u) == pc[Main] = "idle" /\ SetConnectable(u)

\* sequential use of get_engine and get_new_session; the reachability of the
\* databases changes between the calls only, so that it is the same from the
\* first to the last statement of a call
NextBetweenCalls ==
  \/ GetEngine(Main) \/ GetNewSession(Main)
  \/ LoopStep(Main)
  \/ BindFactory(Main) \/ NewSession(Main) \/ ReturnEngine(Main)
  \/ \E u \in 0..(MaxUrls - 1) : SetConnectableIdle(u)

SpecBetweenCalls == Init /\ [][NextBetweenCalls]_vars

\* ---- C14 --------------------------------------------------------------------
\* the selection had a cached engine when the call started, the database of
\* that engine is unreachable and another database is reachable
SelectedEngineUnusable ==
  /\ IsEngine(EntryAtStart)
  /\ EntryAtStart[1] \notin connectable
  /\ connectable # {}

\* C14: a get_engine() or get_new_session() call made while the cached engine of
\* the selected URL is unusable and another URL is connectable ends with a
\* different, connectable URL selected and an engine of that URL cached.
C14_FailsOverFromUnusable ==
  [][(/\ pc'[Main] = "idle" /\ connectable' = connectable
      /\ op'[Main] \in {"get_engine", "get_new_session"}
      /\ SelectedEngineUnusable')
       => (IsEngine(CurrentEntry) /\ CurrentEntry[1] \in connectable)']_vars

\* ---- construction as a step -------------------------------------------------
\* before DatabaseManager(urls) runs: urls has n >= 0 entries and no attribute
\* of the manager is assigned
InitConstruct ==
  /\ variant \in Variants
  /\ n \in 0..MaxUrls
  /\ timeout_seconds \in Timeouts
  /\ connectable \in SUBSET Urls
  /\ engines = Unset
  /\ current_engine_index = NoUrl
  /\ current_engine_index_url = NoUrl
  /\ session_factory = Unset
  /\ created = [u \in Urls |-> 0]
  /\ ctor = "new"
  /\ reflected_tables = NoAttribute
  /\ InitCallers
  /\ InitPlain
  /\ calls_left = [t \in Threads |-> Unlimited]

\* __init__, sqla lines 10-16, sqlax lines 42-48: the attributes are assigned,
\* then the assert statement rejects the empty list
Construct ==
  /\ ctor = "new"
  /\ engines' = NewEngines(variant, n)
  /\ current_engine_index' = 0
  /\ current_engine_index_url' = NoUrl
  /\ session_factory' = None
  /\ ctor' = IF UrlsAccepted(n) THEN "ok" ELSE "AssertionError"
  /\ UNCHANGED <<variant, n, timeout_seconds, reflected_tables, created>>
  /\ UNCHANGED <<environment, locals, history, records>>

\* the constructor, then sequential use of the manager it returned; the
\* reachability of the databases stays as it is
NextConstruct == Construct \/ Step(Main)

SpecConstruct == InitConstruct /\ [][NextConstruct]_vars

\* ---- C15 --------------------------------------------------------------------
\* C15: the constructor succeeds exactly for the non-empty URL lists; the manager
\* it returns has, until the first operation is called, no engine for any URL,
\* no session factory and no URL probed; for the empty list the constructor
\* raises (AssertionError) and no operation ever runs on the object.
C15_Construction ==
  /\ ctor # "new" => (ctor = "ok" <=> n >= 1)
  /\ ctor = "new" => op[Main] = "none"
  /\ (ctor = "ok" /\ op[Main] = "none") =>
       /\ engines = NewEngines(variant, n)
       /\ \A u \in Urls : ~IsEngine(engines[u]) /\ created[u] = 0
       /\ session_factory = None
       /\ probed[Main] = <<>>
  /\ ctor \notin {"new", "ok"} =>
       /\ ctor = "AssertionError" /\ n = 0
       /\ op[Main] = "none" /\ pc[Main] = "idle"

C15_Witness == ctor = "AssertionError" /\ n = 0 /\ variant = "sqlax"

\* ---- C16 --------------------------------------------------------------------
\* C16: a finished get_engine() call has returned an engine, which is the engine
\* cached for the selected URL, or has raised the connection-unavailable error;
\* it has not returned None and has not ended in any other way.
C16_EngineOrUnavailable ==
  (Done /\ op[Main] = "get_engine") =>
    \/ /\ ret[Main].kind = "engine"
       /\ IsEngine(ret[Main].val) /\ ret[Main].val = CurrentEntry
    \/ /\ ret[Main].kind = "raise"
       /\ ret[Main].exc \in Unavailable

\* ---- reflection: specification ----------------------------------------------
\* sequential use of every operation of the manager, reflection included, on a
\* manager of at most two URLs with the default timeout; databases come and go,
\* tables are created and dropped
InitReflect ==
  /\ InitBase /\ n <= 2 /\ timeout_seconds = DefaultTimeout
  /\ table = <<>>
  /\ crashing = {}
  /\ schema \in [Urls -> SUBSET TableNames]
  /\ sessions_made = NotCounted
  /\ calls_left = [t \in Threads |-> Unlimited]

NextReflect ==
  \/ Step(Main)
  \/ ReflectDatabase(Main) \/ ReflectCheck(Main) \/ Reflect(Main)
  \/ \E name \in TableNames \cup {NoTable} : GetReflectedTable(Main, name)
  \/ \E u \in 0..(MaxUrls - 1) : SetConnectable(u)
  \/ \E u \in 0..(MaxUrls - 1), name \in TableNames : SchemaChange(u, name)

SpecReflect == InitReflect /\ [][NextReflect]_vars

\* ---- C17 --------------------------------------------------------------------
\* C17: a reflect_database() call that starts while no URL has a cached engine
\* and that raises the connection-unavailable error has made no probe and taken
\* no backoff sleep, and has left the reflected-table cache, the engine cache
\* and the selection as they were.
C17_ReflectFailsAtOnce ==
  (/\ Done /\ op[Main] = "reflect_database" /\ ~SomeEngineAtStart
   /\ ret[Main].kind = "raise" /\ ret[Main].exc \in Unavailable) =>
    /\ probed[Main] = <<>>
    /\ slept[Main] = 0
    /\ reflected_tables = seen
    /\ engines = snap[Main].engines
    /\ SelectionKept

\* ---- C18 --------------------------------------------------------------------
\* C18: get_reflected_table(name) never raises; it returns the metadata of the
\* table called name that was visible when reflect_database() last succeeded,
\* and None when no table of that name was visible then or when
\* reflect_database() has never succeeded; a successful reflect_database() has
\* reflected through the engine of the selection, and a lookup in the cache
\* gives what a lookup among the tables visible at that reflection gives.
C18_LookupReflected ==
  /\ (Done /\ op[Main] = "get_reflected_table") =>
       /\ ret[Main].kind \in {"table", "None"}
       /\ ret[Main].kind = "table" <=>
            (seen # NoAttribute /\ \E tb \in seen : tb[2] = arg[Main])
       /\ ret[Main].kind = "table" =>
            (ret[Main].val \in seen /\ ret[Main].val[2] = arg[Main])
  /\ (Done /\ op[Main] = "reflect_database" /\ ret[Main].kind = "ok") =>
       /\ seen # NoAttribute
       /\ IsEngine(CurrentEntry)
       /\ \A tb \in seen : tb[1] = CurrentEntry[1]
  /\ \A name \in TableNames \cup {NoTable} :
       LookupTable(reflected_tables, name) = LookupTable(seen, name)

\* a table that has been dropped since the reflection is still returned
C18_Witness ==
  /\ Done /\ op[Main] = "get_reflected_table" /\ ret[Main].kind = "table"
  /\ arg[Main] \notin schema[ret[Main].val[1]]

\* ---- C19 --------------------------------------------------------------------
\* C19: the reflected-table cache changes only in the statement of
\* reflect_database() that stores the reflection, and becomes exactly the set
\* of tables visible through the engine at that moment; every step of
\* get_engine, get_new_session, init_session_factory and get_reflected_table,
\* and every change of the database schema, leaves it as it is.
C19_CacheChangesOnlyInReflect ==
  [][reflected_tables' # reflected_tables =>
       /\ op[Main] = "reflect_database" /\ pc[Main] = "r78"
       /\ reflected_tables' = Visible(engine[Main][1])]_vars

\* the cache is stale after another operation: it holds a table that has been dropped
C19_Witness ==
  /\ Done /\ op[Main] \in {"get_engine", "get_new_session", "init_session_factory"}
  /\ reflected_tables # NoAttribute
  /\ \E tb \in reflected_tables : tb[2] \notin schema[tb[1]]

\* ---- the managed session: specification --------------------------------------
\* sequential use of a helper method that runs a body in the managed session,
\* on a manager of at most two URLs; databases come and go
InitManaged == Init /\ n <= 2

NextManaged ==
  \/ ExecuteWithinSession(Main)
  \/ LoopStep(Main)
  \/ BindFactory(Main) \/ NewSession(Main)
  \/ Body(Main) \/ Rollback(Main) \/ Close(Main)
  \/ \E u \in 0..(MaxUrls - 1) : SetConnectable(u)

SpecManaged == InitManaged /\ [][NextManaged]_vars

\* ---- C20 --------------------------------------------------------------------
\* the session methods called by the managed scope of the last call
Calls == trace[Main]

ManagedDone == Done /\ op[Main] = "execute_within_session"

C21_AcquisitionFailureIsHardStop ==
  /\ (op[Main] = "execute_within_session" /\ Calls = <<>>) =>
       /\ body[Main] = "none"
       /\ db = snap[Main].db
  /\ (ManagedDone /\ Calls = <<>>) =>
       /\ ret[Main].kind = "raise"
       /\ ret[Main].exc # "DatabaseException"
  /\ (ManagedDone /\ ret[Main].kind = "raise" /\ ret[Main].exc \in Unavailable) =>
       Calls = <<>>

C21_Witness ==
  /\ ManagedDone /\ Calls = <<>> /\ ret[Main].kind = "raise"
  /\ ret[Main].exc \in Unavailable /\ probed[Main] # <<>>
  /\ db = 0 /\ session_factory = None


\* ---- C22 --------------------------------------------------------------------
\* the probes of i whole rounds over the URL list followed by the first j URLs
RoundsOf(i, j) == [k \in 1..(i * n + j) |-> (k - 1) % n]

\* C22: in the sqlax variant an acquisition probes the URLs round by round in
\* list order and makes at most 3 * |urls| probes; when it raises because no
\* probe succeeded it has made exactly 3 rounds, each probing every URL once
\* in list order, and it raises InitializeDatabaseException; a call that found
\* no connectable URL and no cached engine never ends in any other way.
C22_ThreeRoundsThenRaise ==
  (variant = "sqlax" /\ op[Main] \in AcquisitionOps) =>
    /\ Len(probed[Main]) <= 3 * n
    /\ probed[Main] = RoundsOf(Len(probed[Main]) \div n, Len(probed[Main]) % n)
    /\ (Done /\ ret[Main].kind = "raise") =>
         /\ ret[Main].exc = "InitializeDatabaseException"
         /\ probed[Main] = RoundsOf(3, 0)
         /\ \A u \in Urls : ~IsEngine(engines[u])
    /\ (Done /\ ret[Main].kind # "raise" /\ ~SomeEngineAtStart) =>
         /\ probed[Main] # <<>>
         /\ IsEngine(engines[probed[Main][Len(probed[Main])]])

C22_Witness ==
  /\ variant = "sqlax" /\ n = 2 /\ op[Main] = "get_engine"
  /\ Done /\ ret[Main] = Raised("InitializeDatabaseException")
  /\ probed[Main] = <<0, 1, 0, 1, 0, 1>>


\* ---- C23 --------------------------------------------------------------------
\* C23: in the sqla variant the index is always within [0, |urls|); the probes
\* of an acquisition start at the index persisted when the call started, and
\* each next probe is at the index advanced by one modulo |urls|; a failed
\* acquisition that made k probes from index s leaves the index at
\* (s + k) mod |urls|, a successful one leaves it at the URL of its last probe.
C23_ResumeAndWrap ==
  variant = "sqla" =>
    /\ current_engine_index \in 0..(n - 1)
    /\ op[Main] \in AcquisitionOps =>
         /\ \A i \in 1..Len(probed[Main]) :
              probed[Main][i] = (snap[Main].index + i - 1) % n
         /\ (Done /\ ret[Main].kind = "raise") =>
              current_engine_index = (snap[Main].index + Len(probed[Main])) % n
         /\ (Done /\ ret[Main].kind # "raise" /\ probed[Main] # <<>>) =>
              current_engine_index = probed[Main][Len(probed[Main])]

C23_Witness ==
  /\ variant = "sqla" /\ n = 3 /\ op[Main] \in AcquisitionOps
  /\ Done /\ ret[Main].kind = "raise"
  /\ snap[Main].index = 2 /\ probed[Main] = <<2, 0, 1>>
  /\ current_engine_index = 2

\* ---- C24 --------------------------------------------------------------------
\* the running (or last) call went through the engine acquisition loop
LoopEntered ==
  \/ op[Main] = "init_session_factory"
  \/ op[Main] = "get_engine" /\ ~EngineCached(EntryAtStart)
  \/ op[Main] = "get_new_session" /\ FactoryMissing(snap[Main].factory)

\* C24: in the sqlax variant every round of an acquisition goes through the
\* URLs from index 0 in list order, and an acquisition that succeeds selects
\* and returns the engine of the lowest-index URL that has an engine: no URL
\* before it had a cached engine or was probed successfully in that round.
C24_RestartFromZero ==
  (variant = "sqlax" /\ op[Main] \in AcquisitionOps /\ LoopEntered) =>
    /\ \A i \in 1..Len(probed[Main]) : probed[Main][i] = (i - 1) % n
    /\ (Done /\ ret[Main].kind # "raise") =>
         /\ current_engine_index_url \in Urls
         /\ IsEngine(CurrentEntry)
         /\ \A v \in Urls : v < current_engine_index_url =>
              /\ ~IsEngine(snap[Main].engines[v])
              /\ ~IsEngine(engines[v])
              /\ v \in Range(probed[Main])
         /\ ret[Main].kind = "engine" => ret[Main].val = CurrentEntry
         /\ ret[Main].kind \in {"session", "ok"} => session_factory = CurrentEntry

C24_Witness ==
  /\ variant = "sqlax" /\ n = 3 /\ op[Main] = "init_session_factory" /\ Done
  /\ IsEngine(snap[Main].engines[2]) /\ snap[Main].index_url = 2
  /\ probed[Main] = <<0, 1>> /\ current_engine_index_url = 1
  /\ ret[Main].kind = "ok" /\ session_factory[1] = 1


\* ---- C25 --------------------------------------------------------------------
\* the rounds (sqlax) or attempts (sqla) of the running (or last) call that
\* have ended without success
FailedRounds ==
  LET k == Len(probed[Main])
      ok == Done /\ ret[Main].kind # "raise"
  IN  IF variant = "sqla"
        THEN (IF ok /\ k > 0 THEN k - 1 ELSE k)
        ELSE (IF ok /\ k > 0 THEN (k - 1) \div n ELSE k \div n)

\* C25: a backoff sleep is taken only after a round or attempt that ended with
\* no success; an acquisition that fails after R rounds has slept R - 1 times,
\* and one that succeeds has slept once for each failed round before its
\* successful probe and not after it.
C25_SleepOnlyBetweenRounds ==
  op[Main] \in AcquisitionOps =>
    /\ slept[Main] <= FailedRounds
    /\ (Done /\ ret[Main].kind = "raise" /\ ret[Main].exc \in Unavailable) =>
         slept[Main] = FailedRounds - 1
    /\ (Done /\ ret[Main].kind # "raise") => slept[Main] = FailedRounds


\* what the code does: it sleeps after every failed round, the last one
\* included, unless the deadline ended the loop before the sleep
C25_SleepAfterEveryFailedRound ==
  op[Main] \in AcquisitionOps =>
    /\ slept[Main] <= FailedRounds
    /\ (Done /\ ret[Main].kind = "raise" /\ ret[Main].exc \in Unavailable) =>
         slept[Main] = (IF broke[Main] THEN FailedRounds - 1 ELSE FailedRounds)
    /\ (Done /\ ret[Main].kind # "raise") => slept[Main] = FailedRounds


\* ---- C26 --------------------------------------------------------------------
\* C26: in the sqla variant a call that finds the deadline exceeded after a
\* failed attempt raises RuntimeError at once, without a further probe or
\* sleep, even if attempts remain; and no probe and no sleep ever starts at an
\* elapsed time greater than timeout_seconds.
C26_NoProbePastDeadline ==
  variant = "sqla" =>
    /\ broke[Main] => (Done /\ ret[Main] = Raised("RuntimeError"))
    /\ pc[Main] = "a44" => ~DeadlineExceeded(elapsed[Main], timeout_seconds)
    /\ pc[Main] = "a31" => ~DeadlineExceeded(elapsed[Main], timeout_seconds)

\* what the code does: the deadline is tested once per failed attempt, before
\* the sleep; the time of the sleep itself is not tested before the next probe
C26_DeadlineTestedBeforeSleep ==
  variant = "sqla" =>
    /\ broke[Main] => (Done /\ ret[Main] = Raised("RuntimeError"))
    /\ pc[Main] = "a44" => ~DeadlineExceeded(elapsed[Main], timeout_seconds)


\* ---- termination ------------------------------------------------------------
\* sequential use as in Spec, with every statement of a call that has started
\* being executed eventually (every probe returns); calls are started and
\* databases come and go without any fairness; lists of up to three URLs, so
\* that the three attempts of sqla go once round the list
InCall(t) ==
  \/ LoopStep(t)
  \/ BindFactory(t) \/ NewSession(t) \/ ReturnEngine(t)

InitTerminate == Init /\ n <= 3

SpecTerminate == InitTerminate /\ [][Next]_vars /\ WF_vars(InCall(Main))

\* ---- C27 --------------------------------------------------------------------

\* no probe of the running (or last) call has succeeded: an engine that a probe
\* yields is stored in the entry of its URL and stays there
NoProbeSucceeded ==
  \A i \in 1..Len(probed[Main]) : ~IsEngine(engines[probed[Main][i]])

\* the caller is about to probe (sqla line 32, sqlax line 73)
AboutToProbe == pc[Main] \in {"a31", "x73"}

\* C27: every acquisition call that has started ends, returning or raising,
\* whatever the probes yield; it makes at most 3 probes in the sqla variant
\* and at most 3 * |urls| in the sqlax variant; a probe is followed by another
\* probe only if it failed, a call that raises has had no successful probe,
\* and a call that returns leaves an engine selected.
C27_Terminates ==
  /\ [](op[Main] \in AcquisitionOps =>
          /\ Len(probed[Main]) <= FullBudget
          /\ AboutToProbe => NoProbeSucceeded
          /\ (Done /\ ret[Main].kind = "raise") => NoProbeSucceeded
          /\ (Done /\ ret[Main].kind # "raise") => IsEngine(CurrentEntry))
  /\ (pc[Main] # "idle") ~> Done

C27_Witness ==
  /\ variant = "sqla" /\ n = 3 /\ op[Main] = "get_engine" /\ Done
  /\ probed[Main] = <<0, 1>> /\ ret[Main] = Returned("engine", Engine(1, 1))
  /\ slept[Main] = 1


\* ---- C28 --------------------------------------------------------------------
\* a probe of urls[u] has just yielded an engine that is not yet stored
\* (sqla between lines 32 and 33, sqlax between lines 73 and 74)
JustProbed(u) ==
  /\ pc[Main] \in {"a33", "x74"} /\ url[Main] = u /\ IsEngine(engine[Main])

\* the probes of the running call up to and including the present pass
ProbesDue ==
  IF variant = "sqla" THEN attempt[Main] + 1 ELSE attempt[Main] * n + ui[Main] + 1

\* C28: in sequential use a URL has a truthy cached engine if and only if some
\* earlier probe of that URL succeeded, and every entry without an engine is
\* empty; an acquisition that reaches a URL without an engine probes it: when
\* the call tests the entry (sqla line 35, sqlax line 76) and finds no engine,
\* it has probed that URL in this very pass.
C28_FailuresNotCached ==
  /\ \A u \in Urls :
       /\ IsEngine(engines[u]) => created[u] > 0
       /\ created[u] > 0 => (IsEngine(engines[u]) \/ JustProbed(u))
       /\ ~IsEngine(engines[u]) => engines[u] \in {None, Absent}
  /\ (pc[Main] = "a35" /\ ~IsEngine(engines[current_engine_index])) =>
       /\ Len(probed[Main]) = ProbesDue
       /\ probed[Main][Len(probed[Main])] = current_engine_index
  /\ (pc[Main] = "x76" /\ ~IsEngine(engines[url[Main]])) =>
       /\ Len(probed[Main]) = ProbesDue
       /\ probed[Main][Len(probed[Main])] = url[Main]

C28_Witness ==
  /\ n = 2 /\ Done /\ op[Main] = "get_new_session" /\ ret[Main].kind = "session"
  /\ prev[Main].ret.kind = "raise" /\ prev[Main].ret.exc \in Unavailable
  /\ probed[Main] = <<0>> /\ created[0] = 1 /\ created[1] = 0
  /\ IsEngine(engines[0]) /\ ~IsEngine(engines[1])


\* ---- C29 --------------------------------------------------------------------
\* C29: in the sqla variant with concurrent callers every engine in the cache
\* is in the slot of the URL it was created from, and a caller that is about
\* to store the result of its probe (line 33) stores it in the slot of the URL
\* it probed.
C29_SlotHoldsEngineOfItsUrl ==
  variant = "sqla" =>
    /\ \A u \in Urls : IsEngine(engines[u]) => engines[u][1] = u
    /\ \A t \in Threads :
         (pc[t] = "a33" /\ IsEngine(engine[t])) => url[t] = current_engine_index


\* ---- C30 --------------------------------------------------------------------
\* C30: in the sqlax variant with concurrent callers a get_engine() call that
\* returns normally returns an engine, never None, and the engine is one that a
\* successful probe of its URL created.
C30_GetEngineReturnsProbedEngine ==
  variant = "sqlax" =>
    \A t \in Threads :
      (pc[t] = "idle" /\ op[t] = "get_engine" /\ ret[t].kind \notin {"none", "raise"}) =>
        /\ ret[t].kind = "engine"
        /\ IsEngine(ret[t].val)
        /\ created[ret[t].val[1]] >= ret[t].val[2]


\* ---- the batch helpers: specifications ----------------------------------------
\* an sqlax manager of one URL whose database is reachable; the table starts
\* with at most one record per conflict-target value; the caller makes c calls
InitHelpers(c) ==
  /\ InitBase
  /\ variant = "sqlax" /\ n = 1 /\ timeout_seconds = DefaultTimeout
  /\ connectable = {0}
  /\ crashing = {}
  /\ schema = [u \in Urls |-> {}]
  /\ sessions_made = NotCounted
  /\ table \in UniqueTables
  /\ calls_left = [t \in Threads |-> IF t = Main THEN c ELSE 0]

\* the statements of a helper call up to the body of its managed session
OpenSession(t) ==
  \/ SqlaxSelect(t) \/ SqlaxCheck(t) \/ SqlaxProbe(t)
  \/ SqlaxStore(t) \/ SqlaxTest(t) \/ SqlaxReturn(t)
  \/ BindFactory(t) \/ NewSession(t)
  \/ BeginTransaction(t)

\* one caller calls upsert and then repeats the call with the same rows
InitUpsert == InitHelpers(2)

FirstUpsert(t) == op[t] = "none" /\ Upsert(t)

UpsertAgain(t) == op[t] = "upsert" /\ BatchCall(t, "upsert", data[t])

NextUpsert ==
  \/ FirstUpsert(Main) \/ UpsertAgain(Main)
  \/ OpenSession(Main)
  \/ UpsertRow(Main) \/ Commit(Main)
  \/ Rollback(Main) \/ Close(Main)

SpecUpsert == InitUpsert /\ [][NextUpsert]_vars

\* one caller makes one call of upsert or bulk_insert
InitBatch == InitHelpers(1)

NextBatch ==
  \/ Upsert(Main) \/ BulkInsert(Main)
  \/ OpenSession(Main)
  \/ UpsertRow(Main) \/ BulkAddAll(Main) \/ Commit(Main) \/ BulkToDict(Main)
  \/ Rollback(Main) \/ Close(Main)

SpecBatch == InitBatch /\ [][NextBatch]_vars


\* ---- C31 --------------------------------------------------------------------
\* the table when the running (or last) helper call started, and its rows
TableBefore == before[Main].table

Given == data[Main]

KeysOf(q) == {q[i][1] : i \in 1..Len(q)}

\* the last row of q that has the conflict-target value k
LastRow(q, k) ==
  q[CHOOSE i \in 1..Len(q) : q[i][1] = k /\ \A j \in (i + 1)..Len(q) : q[j][1] # k]

UpsertDone == Done /\ op[Main] = "upsert" /\ ret[Main] = Returned("ok", None)

\* C31: after a successful upsert on a table that had at most one record per
\* conflict-target value, the table still has at most one record per value;
\* for every input row the record of its value carries the values of the last
\* input row with that value; the records that were there keep their place and
\* their conflict-target value, and those matching no input row are unchanged;
\* records are added only for values that had none; and a repetition of a
\* successful call with the same rows leaves the table as it was.
C31_UpsertInPlace ==
  (UpsertDone /\ Unique(TableBefore)) =>
    /\ Unique(table)
    /\ \A k \in KeysOf(Given) : \E i \in 1..Len(table) : table[i] = LastRow(Given, k)
    /\ Len(TableBefore) <= Len(table)
    /\ \A i \in 1..Len(TableBefore) :
         /\ table[i][1] = TableBefore[i][1]
         /\ TableBefore[i][1] \notin KeysOf(Given) => table[i] = TableBefore[i]
    /\ KeysOf(table) = KeysOf(TableBefore) \cup KeysOf(Given)
    /\ (prev[Main].op = "upsert" /\ prev[Main].ret = Returned("ok", None)) =>
         table = TableBefore

\* the repetition of a call whose rows repeat a conflict-target value that the
\* table did not have, next to a record that matches no row
C31_Witness ==
  /\ UpsertDone
  /\ prev[Main].op = "upsert" /\ prev[Main].ret = Returned("ok", None)
  /\ Given = << <<2, 1>>, <<2, 2>> >>
  /\ table = << <<1, 1>>, <<2, 2>> >>
  /\ Calls = <<"open", "commit", "close">>

\* ---- C32 --------------------------------------------------------------------
Committed == \E i \in 1..Len(Calls) : Calls[i] = "commit"

\* C32: upsert and bulk_insert stage all their rows and commit once: as long as
\* session.commit() has not returned the table is as it was when the call
\* started; a call in which staging a row or the commit raises ends with the
\* table as it was, after rollback and close when the error is an Exception
\* (the caller gets a DatabaseException) and after close alone otherwise; a call
\* that returns has committed exactly once, as the last statement on the table.
C32_AllOrNothing ==
  op[Main] \in BatchOps =>
    /\ ~Committed => table = TableBefore
    /\ (Done /\ ret[Main].kind = "raise" /\ ~Committed /\ Calls # <<>>) =>
         /\ table = TableBefore
         /\ body[Main] = "Exception" =>
              /\ Calls = <<"open", "rollback", "close">>
              /\ ret[Main] = Raised("DatabaseException")
         /\ body[Main] = "BaseException" => Calls = <<"open", "close">>
    /\ (Done /\ ret[Main].kind # "raise") =>
         /\ Calls = <<"open", "commit", "close">>
         /\ op[Main] = "bulk_insert" => table = TableBefore \o Given

\* the second row of an upsert has raised after the first row was staged, and
\* the session has been rolled back
C32_Witness ==
  /\ op[Main] = "upsert" /\ pc[Main] = "m122d"
  /\ Len(Given) = 2 /\ row[Main] = 2
  /\ work[Main] # table /\ table = TableBefore
  /\ Calls = <<"open", "rollback">>


\* ---- models_to_dict_list -------------------------------------------------------
\* an object is a model with a to_dict method that returns the dictionary of
\* its attributes (one of two), or an object without that method (None, 123)
Dicts == {"id1", "id2"}
Model(d) == [to_dict |-> TRUE, attrs |-> d]
Other == [to_dict |-> FALSE, attrs |-> ""]
Objects == {Model(d) : d \in Dicts} \cup {Other}

\* the arguments: a list of objects, or something that cannot be iterated (None)
ListOf(q) == [iterable |-> TRUE, items |-> q]
NotIterable == [iterable |-> FALSE, items |-> <<>>]
Arguments == {ListOf(q) : q \in SeqsUpTo(Objects, MaxModels)} \cup {NotIterable}

\* obj.to_dict()
ToDict(obj) == obj.attrs

\* the object has the attribute to_dict
HasToDict(obj) == obj.to_dict

\* helper.py line 24: [obj.to_dict() for obj in models], element by element;
\* the attribute lookup raises AttributeError on an object without to_dict
RECURSIVE Comprehension(_, _)
Comprehension(q, acc) ==
  IF q = <<>> THEN Returned("list", acc)
  ELSE IF HasToDict(Head(q))
    THEN Comprehension(Tail(q), Append(acc, ToDict(Head(q))))
    ELSE Raised("AttributeError")

\* helper.py lines 14-24: iterating something that is not iterable raises
\* TypeError; the variation skips the objects without to_dict
ModelsToDictListSkipping(models) ==
  IF models.iterable
    THEN LET sel == SelectSeq(models.items, HasToDict)
         IN  Returned("list", [i \in 1..Len(sel) |-> ToDict(sel[i])])
    ELSE Raised("TypeError")
ModelsToDictList(models) ==
  IF models.iterable THEN Comprehension(models.items, <<>>) ELSE Raised("TypeError")

\* a caller calls models_to_dict_list(models)
CallModelsToDictList(t) ==
  \E models \in Arguments :
    /\ BeginCallWith(t, "models_to_dict_list", models)
    /\ ret' = [ret EXCEPT ![t] = ModelsToDictList(models)]
    /\ UNCHANGED <<pc, attempt, ui, url, engine, tmp, elapsed>>
    /\ UNCHANGED <<shared, environment, records>>

\* one caller calls the function again and again
InitDicts ==
  /\ InitBase /\ InitPlain
  /\ variant = "sqlax" /\ n = 1 /\ timeout_seconds = DefaultTimeout
  /\ calls_left = [t \in Threads |-> Unlimited]

NextDicts == CallModelsToDictList(Main)

SpecDicts == InitDicts /\ [][NextDicts]_vars

\* ---- C33 --------------------------------------------------------------------
DictsDone == Done /\ op[Main] = "models_to_dict_list"

\* C33: models_to_dict_list(models) returns a list of the length of models whose
\* i-th element is models[i].to_dict(), the empty list for the empty list; when
\* an element has no to_dict or models cannot be iterated the call raises and
\* returns no list, and it raises in no other case.
C33_ModelsToDictList ==
  DictsDone =>
    LET models == arg[Main]
        q == models.items
        good == models.iterable /\ \A i \in 1..Len(q) : q[i].to_dict
    IN  /\ good =>
              /\ ret[Main].kind = "list"
              /\ Len(ret[Main].val) = Len(q)
              /\ \A i \in 1..Len(q) : ret[Main].val[i] = q[i].attrs
        /\ ~good => ret[Main].kind = "raise"
        /\ ~models.iterable => ret[Main] = Raised("TypeError")
        /\ (models.iterable /\ ~good) => ret[Main] = Raised("AttributeError")

C33_Witness ==
  /\ DictsDone
  /\ arg[Main] = ListOf(<<Model("id2"), Model("id1"), Model("id2")>>)
  /\ ret[Main] = Returned("list", <<"id2", "id1", "id2">>)
====
